---- MODULE Spec2Model ----
(***************************************************************************)
(* Task manager: the data access layer (database.py, SupabaseClient), the *)
(* dispatch routes and the UI script (streamlit_app.py), over the remote  *)
(* table `tasks` (config.py, TASKS_SCHEMA).                               *)
(*                                                                         *)
(* A text is a sequence of one-character strings, so that emptiness,      *)
(* lower-casing, substring search and integer parsing are computed.       *)
(* A failed remote call (transport error or non-2xx status) is a call the *)
(* database did not apply.                                                *)
(***************************************************************************)
EXTENDS Integers, Sequences, FiniteSets, TLC

VARIABLES db, nextId, now, last, resp, ui

\* ---------------------------------------------------------------- bounds
\* how many rows the serial column may hand out
MaxId == 2
\* the last reading of the database clock
MaxTime == 1
\* how many rows the table holds when the statistics are computed over it
MaxRows == 4

\* ----------------------------------------------------------------- texts
TA == <<"A">>
TD == <<"d">>
Empty == <<>>

IsDigit(ch) == ch \in {"0", "1", "2", "3", "4", "5", "6", "7", "8", "9"}

DigitVal(ch) ==
  CASE ch = "0" -> 0 [] ch = "1" -> 1 [] ch = "2" -> 2 [] ch = "3" -> 3
    [] ch = "4" -> 4 [] ch = "5" -> 5 [] ch = "6" -> 6 [] ch = "7" -> 7
    [] ch = "8" -> 8 [] OTHER -> 9

\* str.lower() on the characters the model uses
LowerCh(ch) ==
  CASE ch = "A" -> "a" [] ch = "B" -> "b" [] ch = "D" -> "d" [] ch = "T" -> "t"
    [] ch = "R" -> "r" [] ch = "U" -> "u" [] ch = "E" -> "e" [] OTHER -> ch

Lower(s) == [i \in 1..Len(s) |-> LowerCh(s[i])]

\* s contains q as a contiguous substring
Contains(s, q) ==
  \E i \in 1..(Len(s) - Len(q) + 1) : SubSeq(s, i, i + Len(q) - 1) = q

\* PostgREST ilike.*q* : case-insensitive substring match
ILike(s, q) == Contains(Lower(s), Lower(q))

Reverse(s) == [i \in 1..Len(s) |-> s[Len(s) + 1 - i]]

\* str.strip() of blanks
RECURSIVE LStrip(_)
LStrip(s) == IF s # <<>> /\ s[1] = " " THEN LStrip(Tail(s)) ELSE s

Strip(s) == Reverse(LStrip(Reverse(LStrip(s))))

\* digits, with single underscores between them
RECURSIVE DigitsOk(_, _)
DigitsOk(s, afterDigit) ==
  IF s = <<>> THEN afterDigit
  ELSE IF IsDigit(s[1]) THEN DigitsOk(Tail(s), TRUE)
  ELSE s[1] = "_" /\ afterDigit /\ Tail(s) # <<>> /\ IsDigit(s[2]) /\ DigitsOk(Tail(s), FALSE)

RECURSIVE DigitsVal(_, _)
DigitsVal(s, acc) ==
  IF s = <<>> THEN acc
  ELSE IF s[1] = "_" THEN DigitsVal(Tail(s), acc)
  ELSE DigitsVal(Tail(s), 10 * acc + DigitVal(s[1]))

\* Python's int(text): blanks stripped, an optional sign, decimal digits;
\* raises ValueError (ok = FALSE) on anything else
ParseInt(text) ==
  LET s == Strip(text)
      signed == s # <<>> /\ s[1] \in {"+", "-"}
      body == IF signed THEN Tail(s) ELSE s
  IN IF DigitsOk(body, FALSE)
     THEN [ok |-> TRUE,
           val |-> IF signed /\ s[1] = "-" THEN 0 - DigitsVal(body, 0) ELSE DigitsVal(body, 0)]
     ELSE [ok |-> FALSE, val |-> 0]

\* the decimal text of a one-digit number
Decimal(i) ==
  <<CASE i = 0 -> "0" [] i = 1 -> "1" [] i = 2 -> "2" [] i = 3 -> "3" [] i = 4 -> "4"
      [] i = 5 -> "5" [] i = 6 -> "6" [] i = 7 -> "7" [] i = 8 -> "8" [] OTHER -> "9">>

\* ----------------------------------------------------------------- store
\* a row of table tasks (updated_at is never read or written by the code)
Row(i, t, d, c, at) ==
  [id |-> i, title |-> t, description |-> d, completed |-> c, created_at |-> at]

Ids(S) == {r.id : r \in S}

\* the orders in which the database may return the rows S for
\* order=created_at.desc; rows with equal created_at come in any order
Listings(S) ==
  {s \in [1..Cardinality(S) -> S] :
     /\ \A i, j \in 1..Cardinality(S) : i # j => s[i] # s[j]
     /\ \A i, j \in 1..Cardinality(S) : i < j => s[i].created_at >= s[j].created_at}

\* the subsequence of s whose elements satisfy membership in K
RECURSIVE Filter(_, _)
Filter(s, K) ==
  IF s = <<>> THEN <<>>
  ELSE IF s[1] \in K THEN <<s[1]>> \o Filter(Tail(s), K) ELSE Filter(Tail(s), K)

\* ------------------------------------------------- binary floating point
\* the significand width of a Python float (IEEE 754 binary64)
Precision == 53

\* A natural number is a sequence of bits, least significant first, with no
\* high zero bit; a float is [m, e], of value m * 2^e, with m of exactly
\* Precision bits, or zero ([m |-> <<>>, e |-> 0]).
RECURSIVE BitsOf(_)
BitsOf(n) == IF n = 0 THEN <<>> ELSE <<n % 2>> \o BitsOf(n \div 2)

\* a * k + carry
RECURSIVE MulAdd(_, _, _)
MulAdd(a, k, carry) ==
  IF a = <<>> THEN BitsOf(carry)
  ELSE LET v == a[1] * k + carry
       IN <<v % 2>> \o MulAdd(Tail(a), k, v \div 2)

Zeros(n) == [i \in 1..n |-> 0]

\* a * 2^n
ShiftLeft(a, n) == IF a = <<>> THEN <<>> ELSE Zeros(n) \o a

\* a <= b
RECURSIVE LeqFromTop(_, _, _)
LeqFromTop(a, b, i) ==
  IF i = 0 THEN TRUE
  ELSE IF a[i] # b[i] THEN a[i] < b[i] ELSE LeqFromTop(a, b, i - 1)

Leq(a, b) ==
  IF Len(a) # Len(b) THEN Len(a) < Len(b) ELSE LeqFromTop(a, b, Len(a))

FZero == [m |-> <<>>, e |-> 0]

\* round the natural `bits` * 2^e (plus, when sticky, a nonzero part below
\* its last bit) to Precision bits, to nearest, ties to even
RoundTo(bits, e, sticky) ==
  IF bits = <<>> THEN FZero
  ELSE IF Len(bits) <= Precision
  THEN [m |-> Zeros(Precision - Len(bits)) \o bits, e |-> e - (Precision - Len(bits))]
  ELSE LET d == Len(bits) - Precision
           kept == SubSeq(bits, d + 1, Len(bits))
           low == sticky \/ \E i \in 1..(d - 1) : bits[i] = 1
           up == bits[d] = 1 /\ (low \/ kept[1] = 1)
           m1 == IF up THEN MulAdd(kept, 1, 1) ELSE kept
       IN IF Len(m1) > Precision
          THEN [m |-> SubSeq(m1, 2, Len(m1)), e |-> e + d + 1]
          ELSE [m |-> m1, e |-> e + d]

\* the next n bits, most significant first, of the fraction r / t (r < t)
RECURSIVE FracBits(_, _, _)
FracBits(r, t, n) ==
  IF n = 0 THEN <<>>
  ELSE LET b == IF 2 * r >= t THEN 1 ELSE 0
       IN <<b>> \o FracBits(2 * r - b * t, t, n - 1)

\* the remainder left after those n bits
RECURSIVE FracRem(_, _, _)
FracRem(r, t, n) ==
  IF n = 0 THEN r
  ELSE FracRem(2 * r - (IF 2 * r >= t THEN t ELSE 0), t, n - 1)

\* the zero bits that open the fraction r / t (0 < r < t)
RECURSIVE LeadingZeros(_, _)
LeadingZeros(r, t) == IF 2 * r >= t THEN 0 ELSE 1 + LeadingZeros(2 * r, t)

\* Python's c / t on integers (0 <= c, 0 < t): the correctly rounded quotient
TrueDiv(c, t) ==
  IF c = 0 THEN FZero
  ELSE LET int == Reverse(BitsOf(c \div t))
           r == c % t
           z == IF int = <<>> /\ r > 0 THEN LeadingZeros(r, t) ELSE 0
           n == Precision + 1 - Len(int)
           sig == int \o SubSeq(FracBits(r, t, z + n), z + 1, z + n)
       IN RoundTo(Reverse(sig), Len(int) - z - Precision - 1, FracRem(r, t, z + n) # 0)

\* Python's f * k, a float by a non-negative integer
FMul(f, k) == RoundTo(MulAdd(f.m, k, 0), f.e, FALSE)

\* the exact equation f * t = n over the reals
FTimesEquals(f, t, n) ==
  LET p == MulAdd(f.m, t, 0)
  IN IF f.e <= 0 THEN p = ShiftLeft(BitsOf(n), 0 - f.e)
     ELSE ShiftLeft(p, f.e) = BitsOf(n)

\* |f * t - n| <= k * t * 2^e: f is within k units in its last place of n / t
FTimesWithin(f, t, n, k) ==
  LET p == MulAdd(f.m, t, 0)
      q == ShiftLeft(BitsOf(n), 0 - f.e)
  IN /\ f.e <= 0
     /\ Leq(p, MulAdd(q, 1, k * t))
     /\ Leq(q, MulAdd(p, 1, k * t))

\* ------------------------------------------------------------- endpoints
EpOrder == [kind |-> "order", id |-> 0, q |-> Empty]
EpId(i) == [kind |-> "id", id |-> i, q |-> Empty]
EpSearch(q) == [kind |-> "search", id |-> 0, q |-> q]
EpLimit == [kind |-> "limit", id |-> 0, q |-> Empty]
EpTasks == [kind |-> "tasks", id |-> 0, q |-> Empty]

NoData == [title |-> Empty, description |-> Empty, completed |-> FALSE]

\* what the network and the database decide for one request: whether it
\* succeeds, the row order of a result, whether the clock has advanced
Net(ok, order, tick) == [ok |-> ok, order |-> order, tick |-> tick]

State == [db |-> db, nextId |-> nextId, now |-> now]

Failed == [ok |-> FALSE, body |-> <<>>, st |-> State]

\* the rows a GET selects
Selected(ep) ==
  CASE ep.kind = "id" -> {r \in db : r.id = ep.id}
    [] ep.kind = "search" ->
         {r \in db : ILike(r.title, ep.q) \/ ILike(r.description, ep.q)}
    [] OTHER -> db

\* a DELETE whose filter selects every row
make_request_unfiltered(method, ep, data, net) ==
  IF ~net.ok THEN [ok |-> FALSE, body |-> <<>>, st |-> State]
  ELSE CASE method = "GET" ->
              LET rows == Filter(net.order, Selected(ep))
              IN [ok |-> TRUE,
                  body |-> IF ep.kind = "limit" /\ rows # <<>> THEN <<rows[1]>> ELSE rows,
                  st |-> State]
         [] method = "POST" ->
              LET at == IF now + net.tick <= MaxTime THEN now + net.tick ELSE now
                  row == Row(nextId, data.title, data.description, data.completed, at)
              IN [ok |-> TRUE, body |-> <<row>>,
                  st |-> [db |-> db \cup {row}, nextId |-> nextId + 1, now |-> at]]
         [] method = "PATCH" ->
              LET hit == {r \in db : r.id = ep.id}
                  new == {[r EXCEPT !.title = data.title,
                                    !.description = data.description,
                                    !.completed = data.completed] : r \in hit}
              IN [ok |-> TRUE,
                  body |-> IF new = {} THEN <<>> ELSE <<CHOOSE r \in new : TRUE>>,
                  st |-> [State EXCEPT !.db = (db \ hit) \cup new]]
         [] OTHER ->
              [ok |-> TRUE, body |-> <<>>, st |-> [State EXCEPT !.db = {}]]

\* _make_request: one HTTP request to the REST endpoint; the response
\* (status ok, JSON body) and the state of the table after it
make_request(method, ep, data, net) ==
  IF ~net.ok THEN Failed
  ELSE CASE method = "GET" ->
              LET rows == Filter(net.order, Selected(ep))
              IN [ok |-> TRUE,
                  body |-> IF ep.kind = "limit" /\ rows # <<>> THEN <<rows[1]>> ELSE rows,
                  st |-> State]
         [] method = "POST" ->
              LET at == IF now + net.tick <= MaxTime THEN now + net.tick ELSE now
                  row == Row(nextId, data.title, data.description, data.completed, at)
              IN [ok |-> TRUE, body |-> <<row>>,
                  st |-> [db |-> db \cup {row}, nextId |-> nextId + 1, now |-> at]]
         [] method = "PATCH" ->
              LET hit == {r \in db : r.id = ep.id}
                  new == {[r EXCEPT !.title = data.title,
                                    !.description = data.description,
                                    !.completed = data.completed] : r \in hit}
              IN [ok |-> TRUE,
                  body |-> IF new = {} THEN <<>> ELSE <<CHOOSE r \in new : TRUE>>,
                  st |-> [State EXCEPT !.db = (db \ hit) \cup new]]
         [] OTHER ->
              [ok |-> TRUE, body |-> <<>>,
               st |-> [State EXCEPT !.db = {r \in db : r.id # ep.id}]]

\* ---------------------------------------------------------- return values
RList(s) == [kind |-> "list", rows |-> s]
RTask(t) == [kind |-> "task", rows |-> <<t>>]
RNone == [kind |-> "none", rows |-> <<>>]
RBool(b) == [kind |-> "bool", rows |-> <<b>>]
RRaise == [kind |-> "raise", rows |-> <<>>]

\* --------------------------------------------------- the data access layer
\* each operation: what it returns (or that it raises) and the table after it
get_all_tasks(net) ==
  LET r == make_request("GET", EpOrder, NoData, net)
  IN [ret |-> IF r.ok THEN RList(r.body) ELSE RList(<<>>), st |-> r.st]

get_task(task_id, net) ==
  LET r == make_request("GET", EpId(task_id), NoData, net)
  IN [ret |-> IF r.ok /\ r.body # <<>> THEN RTask(r.body[1]) ELSE RNone, st |-> r.st]

\* create_task that sends title and description in each other's place
create_task_swapped(title, description, net) ==
  LET data == [title |-> description, description |-> title, completed |-> FALSE]
      r == make_request("POST", EpTasks, data, net)
  IN [ret |-> IF r.ok THEN RTask(r.body[1]) ELSE RRaise, st |-> r.st]

create_task(title, description, net) ==
  LET data == [title |-> title, description |-> description, completed |-> FALSE]
      r == make_request("POST", EpTasks, data, net)
  IN [ret |-> IF r.ok THEN RTask(r.body[1]) ELSE RRaise, st |-> r.st]

\* update_task that sends the default completed = False
update_task_default_completed(task_id, title, description, completed, net) ==
  LET data == [title |-> title, description |-> description, completed |-> FALSE]
      r == make_request("PATCH", EpId(task_id), data, net)
  IN [ret |-> IF r.ok /\ r.body # <<>> THEN RTask(r.body[1]) ELSE RRaise, st |-> r.st]

\* update_task that returns None when the representation is empty
update_task_none_on_empty(task_id, title, description, completed, net) ==
  LET data == [title |-> title, description |-> description, completed |-> completed]
      r == make_request("PATCH", EpId(task_id), data, net)
  IN [ret |-> IF ~r.ok THEN RRaise ELSE IF r.body # <<>> THEN RTask(r.body[1]) ELSE RNone,
      st |-> r.st]

update_task(task_id, title, description, completed, net) ==
  LET data == [title |-> title, description |-> description, completed |-> completed]
      r == make_request("PATCH", EpId(task_id), data, net)
  IN [ret |-> IF r.ok /\ r.body # <<>> THEN RTask(r.body[1]) ELSE RRaise, st |-> r.st]

\* delete_task that lets the failure of the remote call through
delete_task_propagates(task_id, net) ==
  LET r == make_request("DELETE", EpId(task_id), NoData, net)
  IN [ret |-> IF r.ok THEN RBool(TRUE) ELSE RRaise, st |-> r.st]

delete_task(task_id, net) ==
  LET r == make_request("DELETE", EpId(task_id), NoData, net)
  IN [ret |-> RBool(r.ok), st |-> r.st]

\* get_task_stats whose rate is the fraction, not the percentage
get_task_stats_fraction(net) ==
  LET g == get_all_tasks(net)
      tasks == g.ret.rows
      total == Len(tasks)
      completed == Cardinality({i \in 1..total : tasks[i].completed})
      pending == total - completed
  IN [ret |-> [kind |-> "stats",
               rows |-> <<[total |-> total, completed |-> completed, pending |-> pending,
                           completion_rate |->
                             IF total > 0 THEN TrueDiv(completed, total) ELSE FZero]>>],
      st |-> g.st]

\* get_task_stats: the counts over get_all_tasks() and the rate, a float
\* when total > 0 and the integer 0 otherwise
get_task_stats(net) ==
  LET g == get_all_tasks(net)
      tasks == g.ret.rows
      total == Len(tasks)
      completed == Cardinality({i \in 1..total : tasks[i].completed})
      pending == total - completed
  IN [ret |-> [kind |-> "stats",
               rows |-> <<[total |-> total, completed |-> completed, pending |-> pending,
                           completion_rate |->
                             IF total > 0 THEN FMul(TrueDiv(completed, total), 100)
                             ELSE FZero]>>],
      st |-> g.st]

search_tasks(query, net) ==
  LET r == make_request("GET", EpSearch(query), NoData, net)
  IN [ret |-> IF r.ok THEN RList(r.body) ELSE RList(<<>>), st |-> r.st]

test_connection(net) ==
  LET r == make_request("GET", EpLimit, NoData, net)
  IN [ret |-> RBool(r.ok), st |-> r.st]

\* ------------------------------------------------------------------ state
\* the data access call of the latest step, with the table before it
Call(op, i, t, d, c, ok, ret) ==
  [op |-> op, id |-> i, title |-> t, description |-> d, completed |-> c,
   ok |-> ok, ret |-> ret, before |-> db]

NoCall ==
  [op |-> "none", id |-> 0, title |-> Empty, description |-> Empty, completed |-> FALSE,
   ok |-> TRUE, ret |-> RNone, before |-> {}]

\* ------------------------------------------------------- the dispatch routes
None == [some |-> FALSE, v |-> Empty]
Some(t) == [some |-> TRUE, v |-> t]

\* query_params.get(name, [None])[0] and query_params.get(name, [default])[0]
Get(list) == IF list = <<>> THEN None ELSE Some(list[1])
GetOr(list, default) == IF list = <<>> THEN default ELSE list[1]

\* Python's truth value of None or a str
Truthy(o) == o.some /\ o.v # Empty

Envelope(status, data, message) == [status |-> status, data |-> data, message |-> message]
Success(data, message) == Envelope("success", data, message)
Error(message) == Envelope("error", RNone, message)

\* st.json(envelope); st.stop()
Emit(envelope, call, st) ==
  [envelopes |-> <<envelope>>, stopped |-> TRUE, call |-> call, st |-> st]

route_tasks(qp, net) ==
  LET res == get_all_tasks(net)
      call == Call("get_all_tasks", 0, Empty, Empty, FALSE, net.ok, res.ret)
  IN IF res.ret = RRaise THEN Emit(Error("exception"), call, res.st)
     ELSE Emit(Success(res.ret, ""), call, res.st)

route_task(qp, net) ==
  LET task_id == Get(qp.id)
      n == ParseInt(task_id.v)
      res == get_task(n.val, net)
      call == Call("get_task", n.val, Empty, Empty, FALSE, net.ok, res.ret)
  IN IF ~Truthy(task_id) THEN Emit(Error("Task ID required"), NoCall, State)
     ELSE IF ~n.ok THEN Emit(Error("exception"), NoCall, State)
     ELSE IF res.ret = RRaise THEN Emit(Error("exception"), call, res.st)
     ELSE Emit(Success(res.ret, ""), call, res.st)

\* the create route without its check of title
route_create_task_unchecked(qp, net) ==
  LET title == Get(qp.title)
      description == GetOr(qp.description, Empty)
      res == create_task(title.v, description, net)
      call == Call("create_task", 0, title.v, description, FALSE, net.ok, res.ret)
  IN IF res.ret = RRaise THEN Emit(Error("exception"), call, res.st)
     ELSE Emit(Success(res.ret, "Task created successfully"), call, res.st)

route_create_task(qp, net) ==
  LET title == Get(qp.title)
      description == GetOr(qp.description, Empty)
      res == create_task(title.v, description, net)
      call == Call("create_task", 0, title.v, description, FALSE, net.ok, res.ret)
  IN IF ~Truthy(title) THEN Emit(Error("Title is required"), NoCall, State)
     ELSE IF res.ret = RRaise THEN Emit(Error("exception"), call, res.st)
     ELSE Emit(Success(res.ret, "Task created successfully"), call, res.st)

route_update_task(qp, net) ==
  LET task_id == Get(qp.id)
      title == Get(qp.title)
      description == GetOr(qp.description, Empty)
      completed == Lower(GetOr(qp.completed, <<"f", "a", "l", "s", "e">>)) = <<"t", "r", "u", "e">>
      n == ParseInt(task_id.v)
      res == update_task(n.val, title.v, description, completed, net)
      call == Call("update_task", n.val, title.v, description, completed, net.ok, res.ret)
  IN IF ~(Truthy(task_id) /\ Truthy(title))
     THEN Emit(Error("Task ID and title are required"), NoCall, State)
     ELSE IF ~n.ok THEN Emit(Error("exception"), NoCall, State)
     ELSE IF res.ret = RRaise THEN Emit(Error("exception"), call, res.st)
     ELSE Emit(Success(res.ret, "Task updated successfully"), call, res.st)

route_delete_task(qp, net) ==
  LET task_id == Get(qp.id)
      n == ParseInt(task_id.v)
      res == delete_task(n.val, net)
      call == Call("delete_task", n.val, Empty, Empty, FALSE, net.ok, res.ret)
  IN IF ~Truthy(task_id) THEN Emit(Error("Task ID required"), NoCall, State)
     ELSE IF ~n.ok THEN Emit(Error("exception"), NoCall, State)
     ELSE IF res.ret = RBool(TRUE) THEN Emit(Success(RNone, "Task deleted successfully"), call, res.st)
     ELSE Emit(Error("Failed to delete task"), call, res.st)

route_health(qp, net) == Emit(Success(RNone, "API is running"), NoCall, State)

\* the branch `if 'api' in query_params`: the route of the selector's value;
\* no route, no envelope and no st.stop() for any other value
dispatch(qp, net) ==
  LET api_endpoint == qp.api[1]
  IN CASE api_endpoint = "tasks" -> route_tasks(qp, net)
       [] api_endpoint = "task" -> route_task(qp, net)
       [] api_endpoint = "create_task" -> route_create_task(qp, net)
       [] api_endpoint = "update_task" -> route_update_task(qp, net)
       [] api_endpoint = "delete_task" -> route_delete_task(qp, net)
       [] api_endpoint = "health" -> route_health(qp, net)
       [] OTHER -> [envelopes |-> <<>>, stopped |-> FALSE, call |-> NoCall, st |-> State]

\* ------------------------------------------------------------ the UI script
\* the widget event that starts a run of the script
Event(kind, i, t, d) == [kind |-> kind, id |-> i, title |-> t, description |-> d]
NoEvent == Event("none", 0, Empty, Empty)

\* One browser session. pc: where the script is (idle: the run is over and
\* the page shows tasks); tasks: the script's variable `tasks`, the listing
\* on the page once the run is over. acted, actedOk: the mutating call made
\* since the user's last action and whether it succeeded; stale: tasks was
\* fetched before that call; fetchOk, fetchDb: whether the fetch of tasks
\* succeeded, and the table it then read; over: the row a toggle's write
\* replaced, as it was in the table, until tasks is fetched again.
NoUi == [pc |-> "idle", event |-> NoEvent, tasks |-> <<>>,
         acted |-> "none", actedOk |-> FALSE, stale |-> FALSE, fetchOk |-> FALSE,
         fetchDb |-> {}, over |-> <<>>]

Acted(u, what, ok) == [u EXCEPT !.acted = what, !.actedOk = ok, !.stale = TRUE]

\* st.experimental_rerun(): the script starts again, the event consumed
Rerun(u) == [u EXCEPT !.pc = "form", !.event = NoEvent]

\* the form `create_task`
ui_form(u, net) ==
  LET res == create_task(u.event.title, u.event.description, net)
  IN IF u.event.kind = "submit" /\ u.event.title # Empty
     THEN IF res.ret # RRaise
          THEN [ui |-> Rerun(Acted(u, "create", TRUE)), st |-> res.st]
          ELSE [ui |-> [Acted(u, "create", FALSE) EXCEPT !.pc = "stats"], st |-> res.st]
     ELSE [ui |-> [u EXCEPT !.pc = "stats"], st |-> State]

\* the section Task Statistics: its own get_all_tasks(), shown as metrics
ui_stats(u, net) ==
  LET res == get_all_tasks(net)
  IN [ui |-> [u EXCEPT !.pc = "list"], st |-> res.st]

\* the section All Tasks: tasks = db.get_all_tasks()
ui_fetch(u, net) ==
  LET res == get_all_tasks(net)
  IN [ui |-> [u EXCEPT !.pc = "render", !.tasks = res.ret.rows, !.stale = FALSE,
                       !.fetchOk = net.ok,
                       !.fetchDb = IF net.ok THEN db ELSE {}, !.over = <<>>],
      st |-> res.st]

\* the loop whose Delete button does not start the script again
ui_render_delete_stays(u, net) ==
  LET hit == {i \in 1..Len(u.tasks) : u.tasks[i].id = u.event.id}
      task == u.tasks[CHOOSE i \in hit : TRUE]
      upd == update_task(task.id, task.title, task.description, ~task.completed, net)
      del == delete_task(task.id, net)
      done == [u EXCEPT !.pc = "idle", !.event = NoEvent]
  IN IF u.event.kind = "toggle" /\ hit # {}
     THEN IF upd.ret # RRaise
          THEN [ui |-> [Rerun(Acted(u, "toggle", TRUE)) EXCEPT
                          !.over = <<CHOOSE r \in db : r.id = task.id>>],
                st |-> upd.st]
          ELSE [ui |-> Acted(done, "toggle", FALSE), st |-> upd.st]
     ELSE IF u.event.kind = "delete" /\ hit # {}
     THEN [ui |-> Acted(done, "delete", del.ret = RBool(TRUE)), st |-> del.st]
     ELSE [ui |-> done, st |-> State]

\* the loop whose Toggle button writes the status it read, not its negation
ui_render_same_status(u, net) ==
  LET hit == {i \in 1..Len(u.tasks) : u.tasks[i].id = u.event.id}
      task == u.tasks[CHOOSE i \in hit : TRUE]
      upd == update_task(task.id, task.title, task.description, task.completed, net)
      del == delete_task(task.id, net)
      done == [u EXCEPT !.pc = "idle", !.event = NoEvent]
  IN IF u.event.kind = "toggle" /\ hit # {}
     THEN IF upd.ret # RRaise
          THEN [ui |-> [Rerun(Acted(u, "toggle", TRUE)) EXCEPT
                          !.over = <<CHOOSE r \in db : r.id = task.id>>],
                st |-> upd.st]
          ELSE [ui |-> Acted(done, "toggle", FALSE), st |-> upd.st]
     ELSE IF u.event.kind = "delete" /\ hit # {}
     THEN [ui |-> Rerun(Acted(u, "delete", del.ret = RBool(TRUE))), st |-> del.st]
     ELSE [ui |-> done, st |-> State]

\* the loop over tasks: the row of each task with its two buttons; the
\* button the user clicked, if tasks still holds its task, returns True
ui_render(u, net) ==
  LET hit == {i \in 1..Len(u.tasks) : u.tasks[i].id = u.event.id}
      task == u.tasks[CHOOSE i \in hit : TRUE]
      upd == update_task(task.id, task.title, task.description, ~task.completed, net)
      del == delete_task(task.id, net)
      done == [u EXCEPT !.pc = "idle", !.event = NoEvent]
  IN IF u.event.kind = "toggle" /\ hit # {}
     THEN IF upd.ret # RRaise
          THEN [ui |-> [Rerun(Acted(u, "toggle", TRUE)) EXCEPT
                          !.over = <<CHOOSE r \in db : r.id = task.id>>],
                st |-> upd.st]
          ELSE [ui |-> Acted(done, "toggle", FALSE), st |-> upd.st]
     ELSE IF u.event.kind = "delete" /\ hit # {}
     THEN [ui |-> Rerun(Acted(u, "delete", del.ret = RBool(TRUE))), st |-> del.st]
     ELSE [ui |-> done, st |-> State]

\* the dispatch request of the latest step: its parameters, the envelopes
\* emitted, whether the script was stopped, whether the UI was rendered
NoResp == [qp |-> [api |-> <<>>, id |-> <<>>, title |-> <<>>, description |-> <<>>,
                   completed |-> <<>>],
           envelopes |-> <<>>, stopped |-> FALSE, ui |-> FALSE, before |-> {}]

Apply(res) ==
  /\ db' = res.st.db
  /\ nextId' = res.st.nextId
  /\ now' = res.st.now

vars == <<db, nextId, now, last, resp, ui>>

Init ==
  /\ db = {}
  /\ nextId = 1
  /\ now = 0
  /\ last = NoCall
  /\ resp = NoResp
  /\ ui = NoUi

\* no request is being answered
Idle == last = NoCall /\ resp = NoResp

\* ---------------------------------------------------------------- inputs
Titles == {Empty, TA}
Descs == {Empty, TD}
Queries == {Empty, <<"a">>, <<"D">>}
TaskIds == 1..MaxId

Present(S) == {<<v>> : v \in S}
Optional(S) == {<<>>} \cup Present(S)

IdTexts == {Empty, <<"x">>, <<" ", "1">>} \cup {Decimal(i) : i \in TaskIds}
CompletedTexts == {<<"T", "r", "u", "e">>}

Params(api, ids, titles, descs, completeds) ==
  [api : Present(api), id : ids, title : titles, description : descs, completed : completeds]

\* the dispatch requests: every route with every value of the parameters it
\* reads, unknown selectors, and requests carrying parameters no route reads
Requests ==
  Params({"tasks", "health", "bogus", ""}, {<<>>}, {<<>>}, {<<>>}, {<<>>})
    \cup Params({"tasks", "health", "bogus"}, Present({<<"1">>}), Present({TA}),
                Present({TD}), Present({<<"1">>}))
    \cup Params({"task", "delete_task"}, Optional(IdTexts), {<<>>}, {<<>>}, {<<>>})
    \cup Params({"create_task"}, {<<>>}, Optional(Titles), Optional({TD}), {<<>>})
    \cup Params({"update_task"}, Optional(IdTexts), Optional(Titles), Optional({TD}),
                Optional(CompletedTexts))

\* the choices of the network and the database that a request's route can see
NetsFor(qp) ==
  LET api == qp.api[1]
      any == CHOOSE s \in Listings(db) : TRUE
  IN {Net(ok, order, tick) :
        ok \in IF api \in {"health", "bogus", ""} THEN {TRUE} ELSE BOOLEAN,
        order \in IF api = "tasks" THEN Listings(db) ELSE {any},
        tick \in IF api = "create_task" THEN {0, 1} ELSE {0}}

\* ------------------------------------- the data access layer, called directly
Direct_get_all_tasks ==
  /\ Idle
  /\ \E ok \in BOOLEAN, order \in Listings(db) :
       LET net == Net(ok, order, 0)
           res == get_all_tasks(net)
       IN /\ Apply(res)
          /\ last' = Call("get_all_tasks", 0, Empty, Empty, FALSE, net.ok, res.ret)
          /\ resp' = NoResp
          /\ UNCHANGED ui
       /\ UNCHANGED ui

Direct_get_task ==
  /\ Idle
  /\ \E id \in TaskIds, ok \in BOOLEAN, order \in Listings(db) :
       LET net == Net(ok, order, 0)
           res == get_task(id, net)
       IN /\ Apply(res)
          /\ last' = Call("get_task", id, Empty, Empty, FALSE, net.ok, res.ret)
          /\ resp' = NoResp
          /\ UNCHANGED ui
       /\ UNCHANGED ui

Direct_create_task ==
  /\ Idle
  /\ nextId <= MaxId
  /\ \E title \in Titles, description \in Descs, ok \in BOOLEAN, tick \in {0, 1} :
       LET net == Net(ok, <<>>, tick)
           res == create_task(title, description, net)
       IN /\ Apply(res)
          /\ last' = Call("create_task", 0, title, description, FALSE, net.ok, res.ret)
          /\ resp' = NoResp
          /\ UNCHANGED ui
       /\ UNCHANGED ui

Direct_update_task ==
  /\ Idle
  /\ \E id \in TaskIds, title \in Titles, description \in Descs, completed \in BOOLEAN,
        ok \in BOOLEAN :
       LET net == Net(ok, <<>>, 0)
           res == update_task(id, title, description, completed, net)
       IN /\ Apply(res)
          /\ last' = Call("update_task", id, title, description, completed, net.ok, res.ret)
          /\ resp' = NoResp
          /\ UNCHANGED ui
       /\ UNCHANGED ui

Direct_delete_task ==
  /\ Idle
  /\ \E id \in TaskIds, ok \in BOOLEAN :
       LET net == Net(ok, <<>>, 0)
           res == delete_task(id, net)
       IN /\ Apply(res)
          /\ last' = Call("delete_task", id, Empty, Empty, FALSE, net.ok, res.ret)
          /\ resp' = NoResp
          /\ UNCHANGED ui
       /\ UNCHANGED ui

Direct_get_task_stats ==
  /\ Idle
  /\ \E ok \in BOOLEAN, order \in Listings(db) :
       LET net == Net(ok, order, 0)
           res == get_task_stats(net)
       IN /\ Apply(res)
          /\ last' = Call("get_task_stats", 0, Empty, Empty, FALSE, net.ok, res.ret)
          /\ resp' = NoResp
          /\ UNCHANGED ui
       /\ UNCHANGED ui

Direct_search_tasks ==
  /\ Idle
  /\ \E query \in Queries, ok \in BOOLEAN, order \in Listings(db) :
       LET net == Net(ok, order, 0)
           res == search_tasks(query, net)
       IN /\ Apply(res)
          /\ last' = Call("search_tasks", 0, query, Empty, FALSE, net.ok, res.ret)
          /\ resp' = NoResp
          /\ UNCHANGED ui
       /\ UNCHANGED ui

Direct_test_connection ==
  /\ Idle
  /\ \E ok \in BOOLEAN, order \in Listings(db) :
       LET net == Net(ok, order, 0)
           res == test_connection(net)
       IN /\ Apply(res)
          /\ last' = Call("test_connection", 0, Empty, Empty, FALSE, net.ok, res.ret)
          /\ resp' = NoResp
          /\ UNCHANGED ui
       /\ UNCHANGED ui

\* ------------------------------------------------------ a dispatch request
\* one run of the script with `api` among the query parameters
Dispatch ==
  /\ Idle
  /\ \E qp \in Requests :
     \E net \in NetsFor(qp) :
       LET out == dispatch(qp, net)
       IN /\ qp.api[1] = "create_task" => nextId <= MaxId
          /\ Apply(out)
          /\ last' = out.call
          /\ resp' = [qp |-> qp, envelopes |-> out.envelopes, stopped |-> out.stopped,
                      ui |-> FALSE, before |-> db]
          /\ UNCHANGED ui

\* the request has been answered; the next one may arrive
Return ==
  /\ ~Idle
  /\ last' = NoCall
  /\ resp' = NoResp
  /\ UNCHANGED <<db, nextId, now, ui>>

\* ---------------------------------------------------------- a UI session
UiTitles == {Empty, TA}
TB == <<"B">>

\* what the user can do on the page: reload it, submit the form, click a
\* button of a listed task
Events ==
  {Event("load", 0, Empty, Empty)}
    \cup {Event("submit", 0, t, Empty) : t \in IF nextId <= MaxId THEN UiTitles ELSE {Empty}}
    \cup {Event(k, ui.tasks[i].id, Empty, Empty) : k \in {"toggle", "delete"},
                                                  i \in 1..Len(ui.tasks)}

UserEvent ==
  /\ ui.pc = "idle"
  /\ \E ev \in Events :
       ui' = [ui EXCEPT !.pc = "form", !.event = ev, !.acted = "none", !.actedOk = FALSE,
                        !.stale = FALSE, !.over = <<>>]
  /\ UNCHANGED <<db, nextId, now, last, resp>>

UiForm ==
  /\ ui.pc = "form"
  /\ ui.event.kind = "submit" => nextId <= MaxId
  /\ \E ok \in BOOLEAN :
       LET out == ui_form(ui, Net(ok, <<>>, 1))
       IN Apply(out) /\ ui' = out.ui
  /\ UNCHANGED <<last, resp>>

UiStats ==
  /\ ui.pc = "stats"
  /\ \E ok \in BOOLEAN, order \in Listings(db) :
       LET out == ui_stats(ui, Net(ok, order, 0))
       IN Apply(out) /\ ui' = out.ui
  /\ UNCHANGED <<last, resp>>

UiFetch ==
  /\ ui.pc = "list"
  /\ \E ok \in BOOLEAN, order \in Listings(db) :
       LET out == ui_fetch(ui, Net(ok, order, 0))
       IN Apply(out) /\ ui' = out.ui
  /\ UNCHANGED <<last, resp>>

UiRender ==
  /\ ui.pc = "render"
  /\ \E ok \in BOOLEAN :
       LET out == ui_render(ui, Net(ok, <<>>, 0))
       IN Apply(out) /\ ui' = out.ui
  /\ UNCHANGED <<last, resp>>

\* the requests of another client while the session runs
OtherRequests ==
  Params({"update_task"}, Present({Decimal(i) : i \in TaskIds}), Present({TB}),
         Present({TD}), Optional(CompletedTexts))
    \cup Params({"delete_task"}, Present({Decimal(i) : i \in TaskIds}), {<<>>}, {<<>>}, {<<>>})

\* a dispatch request of another client, from its arrival to its answer
OtherRequest ==
  /\ \E qp \in OtherRequests :
       LET out == dispatch(qp, Net(TRUE, <<>>, 0))
       IN Apply(out)
  /\ UNCHANGED <<last, resp, ui>>

NextUI == UserEvent \/ UiForm \/ UiStats \/ UiFetch \/ UiRender \/ OtherRequest

SpecUI == Init /\ [][NextUI]_vars

NextDirect ==
  \/ Direct_get_all_tasks
  \/ Direct_get_task
  \/ Direct_create_task
  \/ Direct_update_task
  \/ Direct_delete_task
  \/ Direct_get_task_stats
  \/ Direct_search_tasks
  \/ Direct_test_connection

Next == NextDirect \/ Dispatch \/ Return

Spec == Init /\ [][Next]_vars

\* ------------------------------------------ the statistics over any table
\* the table holds any rows among MaxRows, created one after the other
InitStats ==
  /\ db \in {{Row(i, TA, Empty, f[i], i) : i \in S} :
               S \in SUBSET (1..MaxRows), f \in [1..MaxRows -> BOOLEAN]}
  /\ nextId = MaxRows + 1
  /\ now = MaxRows
  /\ last = NoCall
  /\ resp = NoResp
  /\ ui = NoUi

NextStats == Direct_get_task_stats \/ Return

SpecStats == InitStats /\ [][NextStats]_vars

\* =================================================================== claims
ZeroStats ==
  [kind |-> "stats",
   rows |-> <<[total |-> 0, completed |-> 0, pending |-> 0, completion_rate |-> FZero]>>]

\* the value an operation returns when its remote call fails
Degraded(op) ==
  CASE op \in {"get_all_tasks", "search_tasks"} -> RList(<<>>)
    [] op = "get_task" -> RNone
    [] op = "get_task_stats" -> ZeroStats
    [] op \in {"test_connection", "delete_task"} -> RBool(FALSE)
    [] OTHER -> RRaise

\* C1: when the remote call of a data access operation fails, the reads and
\* delete_task return their degraded value (empty list, None, zero stats,
\* false) and do not raise, create_task and update_task raise, and the table
\* is as it was before the call.
C1_FailureDegrades ==
  (last.op # "none" /\ ~last.ok) =>
    /\ last.ret = Degraded(last.op)
    /\ (last.ret = RRaise <=> last.op \in {"create_task", "update_task"})
    /\ db = last.before

\* a delete of a stored task has failed
C1_Witness ==
  /\ last.op = "delete_task"
  /\ ~last.ok
  /\ last.id \in Ids(db)

\* C2: every request that carries `api`, whatever its value, emits exactly
\* one envelope of status success or error and ends without rendering the UI.
C2_OneEnvelope ==
  resp.qp.api # <<>> =>
    /\ Len(resp.envelopes) = 1
    /\ resp.envelopes[1].status \in {"success", "error"}
    /\ ~resp.ui

\* a text that holds a letter is no number
NonNumeric(text) == \E i \in 1..Len(text) : text[i] \in {"x", "a", "A", "d", "D"}

Missing(list) == list = <<>> \/ list[1] = Empty

\* the request lacks a parameter its route requires, or its id is no number
C3_Lacking ==
  LET api == resp.qp.api[1]
  IN /\ resp.qp.api # <<>>
     /\ \/ api = "create_task" /\ Missing(resp.qp.title)
        \/ api = "update_task" /\ (Missing(resp.qp.id) \/ Missing(resp.qp.title))
        \/ api \in {"task", "delete_task"} /\ Missing(resp.qp.id)
        \/ /\ api \in {"task", "delete_task", "update_task"}
           /\ ~Missing(resp.qp.id)
           /\ NonNumeric(resp.qp.id[1])

\* C3: a dispatch request that lacks a required parameter, or gives it empty,
\* or gives an id that is no number, gets one error envelope, calls no data
\* access operation and leaves the table as it was.
C3_LackingParamNoCall ==
  C3_Lacking =>
    /\ Len(resp.envelopes) = 1
    /\ resp.envelopes[1].status = "error"
    /\ last = NoCall
    /\ db = resp.before

\* an update with a title and the id "x", and a create with an empty title,
\* have been answered while the table holds a row
C3_Witness ==
  /\ C3_Lacking
  /\ db # {}
  /\ \/ resp.qp.api[1] = "update_task" /\ resp.qp.id = <<(<<"x">>)>> /\ resp.qp.title = <<TA>>
     \/ resp.qp.api[1] = "create_task" /\ resp.qp.title = <<Empty>>

\* what get_task(id) returns when its remote call succeeds
GetNow(i) == {get_task(i, Net(TRUE, order, 0)).ret : order \in Listings(db)}

\* what get_all_tasks() returns when its remote call succeeds
ListNow == {get_all_tasks(Net(TRUE, order, 0)).ret.rows : order \in Listings(db)}

\* C4: after update_task(id, t, d, c) has returned a task, get_task(id)
\* returns the task with title t, description d, completed c and the id and
\* created_at it had before; every other row is as it was.
C4_UpdateThenGet ==
  (last.op = "update_task" /\ last.ret # RRaise) =>
    \E old \in last.before :
      /\ old.id = last.id
      /\ GetNow(last.id) =
           {RTask(Row(old.id, last.title, last.description, last.completed, old.created_at))}
      /\ {r \in db : r.id # last.id} = last.before \ {old}

\* an update has changed the three fields of a row beside another row
C4_Witness ==
  /\ last.op = "update_task"
  /\ last.ret # RRaise
  /\ Cardinality(db) = 2
  /\ \E old \in last.before :
       /\ old.id = last.id
       /\ old.title # last.title
       /\ old.description # last.description
       /\ old.completed # last.completed

\* C5: after delete_task(id) has returned true, get_task(id) returns None,
\* get_all_tasks() holds no task of that id, and every row of another id is
\* still there, as it was.
C5_DeleteThenGet ==
  (last.op = "delete_task" /\ last.ret = RBool(TRUE)) =>
    /\ GetNow(last.id) = {RNone}
    /\ \A l \in ListNow : \A i \in 1..Len(l) : l[i].id # last.id
    /\ db = {r \in last.before : r.id # last.id}

\* a stored task has been deleted beside another one
C5_Witness ==
  /\ last.op = "delete_task"
  /\ last.ret = RBool(TRUE)
  /\ last.id \in Ids(last.before)
  /\ db # {}

\* the rows of l that match the title and description of the latest call
Matching(l) ==
  {i \in 1..Len(l) : l[i].title = last.title /\ l[i].description = last.description}

\* C6 as claimed: after any create_task(title, description) that returns,
\* get_all_tasks() holds exactly one task of that title and description, its
\* completed is false, and it is first when no other task has a later
\* created_at.
C6_ExactlyOneMatch ==
  (last.op = "create_task" /\ last.ret # RRaise) =>
    \A l \in ListNow :
      /\ Cardinality(Matching(l)) = 1
      /\ \A i \in Matching(l) : ~l[i].completed
      /\ (\A r \in db : r.created_at <= last.ret.rows[1].created_at) => 1 \in Matching(l)

\* C6: after create_task(title, description) has returned a task, the table
\* is the one before plus that task, which has a new id, the submitted title
\* and description and completed = false; get_all_tasks() holds it once, holds
\* one more task of that title and description than before, and holds it
\* first when every other task has a strictly earlier created_at.
C6_CreatedOnce ==
  (last.op = "create_task" /\ last.ret # RRaise) =>
    LET new == last.ret.rows[1]
    IN /\ new.id \notin Ids(last.before)
       /\ db = last.before \cup {new}
       /\ new.title = last.title
       /\ new.description = last.description
       /\ new.completed = FALSE
       /\ \A l \in ListNow :
            /\ Cardinality({i \in 1..Len(l) : l[i].id = new.id}) = 1
            /\ Cardinality({i \in 1..Len(l) : l[i] = new}) = 1
            /\ Cardinality(Matching(l)) =
                 1 + Cardinality({r \in last.before :
                                    r.title = last.title /\ r.description = last.description})
            /\ (\A r \in last.before : r.created_at < new.created_at) => l[1] = new

\* a task has been created beside one of the same title and description, and
\* another beside one of the same created_at
C6_Witness ==
  /\ last.op = "create_task"
  /\ last.ret # RRaise
  /\ \E r \in last.before :
       /\ r.title = last.title
       /\ r.description = last.description
       /\ r.created_at = last.ret.rows[1].created_at

\* the number of tasks the list call of get_task_stats returned, and of
\* those with completed = true
Listed == IF last.ok THEN Cardinality(db) ELSE 0
ListedCompleted == IF last.ok THEN Cardinality({r \in db : r.completed}) ELSE 0

\* the counts of the statistics returned by the latest call
StatsCounts(s) ==
  /\ s.total = s.completed + s.pending
  /\ 0 <= s.completed
  /\ s.completed <= s.total
  /\ s.total = Listed
  /\ s.completed = ListedCompleted
  /\ s.total = 0 => s.completion_rate = FZero

\* C7 as claimed: the statistics satisfy total = completed + pending,
\* 0 <= completed <= total, completion_rate = 0 when total = 0 and
\* completion_rate * total = completed * 100 otherwise.
C7_RateExact ==
  last.op = "get_task_stats" =>
    LET s == last.ret.rows[1]
    IN /\ StatsCounts(s)
       /\ s.total > 0 => FTimesEquals(s.completion_rate, s.total, s.completed * 100)

\* C7: the statistics satisfy total = completed + pending, 0 <= completed <=
\* total, total and completed are the counts over the listed tasks,
\* completion_rate = 0 when total = 0, and otherwise completion_rate is
\* completed * 100 / total to within two units in the last place of a float.
C7_RateRounded ==
  last.op = "get_task_stats" =>
    LET s == last.ret.rows[1]
    IN /\ StatsCounts(s)
       /\ s.total > 0 => FTimesWithin(s.completion_rate, s.total, s.completed * 100, 2)

\* the statistics of three tasks, one of them completed
C7_Witness ==
  /\ last.op = "get_task_stats"
  /\ last.ret.rows[1].total = 3
  /\ last.ret.rows[1].completed = 1

\* C8: in every reachable state the ids of the rows are pairwise distinct,
\* no call changes the id of a row, and every row has a non-empty title and
\* a boolean completed.
C8_RowsWellFormed ==
  /\ \A r, q \in db : r.id = q.id => r = q
  /\ \A r \in db : r.title # Empty /\ r.completed \in BOOLEAN
  /\ last.op # "none" =>
       \A r \in last.before :
         \/ \E q \in db : q.id = r.id /\ q.created_at = r.created_at
         \/ last.op = "delete_task" /\ last.id = r.id

\* the listing on the page is what its fetch returned: the rows of the table
\* at that moment, newest first, or nothing when the fetch failed
Shown == IF ui.fetchOk THEN ui.tasks \in Listings(ui.fetchDb) ELSE ui.tasks = <<>>

\* C9 as claimed: once a create, toggle or delete of the UI has completed,
\* whether its remote call succeeded or failed, the listing on the page was
\* fetched after it and is what that fetch returned.
C9_AlwaysRefetched ==
  (ui.pc = "idle" /\ ui.acted # "none") =>
    /\ ~ui.stale
    /\ Shown

\* C9: once a create or a delete of the UI has completed, whether its remote
\* call succeeded or failed, or a toggle whose update succeeded, the listing
\* on the page was fetched after it and is what that fetch returned; after a
\* toggle whose update raised, the listing fetched before the write stays.
C9_RefetchedUnlessToggleFailed ==
  (ui.pc = "idle" /\ ui.acted # "none") =>
    /\ Shown
    /\ ui.stale <=> (ui.acted = "toggle" /\ ~ui.actedOk)

\* a delete of the UI has failed and the listing was fetched again
C9_Witness ==
  /\ ui.pc = "idle"
  /\ ui.acted = "delete"
  /\ ~ui.actedOk
  /\ ui.fetchOk
  /\ ui.tasks # <<>>

\* the step in which the Toggle button writes and the script starts again
ToggleWrite ==
  /\ ui.pc = "render"
  /\ ui.event.kind = "toggle"
  /\ ui'.pc = "form"

\* C10 as claimed: a toggle stores the negation of the completed held in the
\* table at the moment of its write and leaves title and description as they
\* are in the table.
C10_NegatesStored ==
  [][ToggleWrite =>
       \E old \in db :
         /\ old.id = ui.event.id
         /\ db' = (db \ {old}) \cup {[old EXCEPT !.completed = ~old.completed]}]_vars

\* C10: a toggle stores, under the id and created_at of the row, the title
\* and description it read when it fetched the listing and the negation of
\* the completed it read then; the row after the write is that payload,
\* whatever was written since the fetch.
C10_WritesWhatItRead ==
  [][ToggleWrite =>
       \E old \in db, i \in 1..Len(ui.tasks) :
         /\ old.id = ui.event.id
         /\ ui.tasks[i].id = old.id
         /\ db' = (db \ {old}) \cup
                    {Row(old.id, ui.tasks[i].title, ui.tasks[i].description,
                         ~ui.tasks[i].completed, old.created_at)}]_vars

\* a toggle has written over a row that another request had changed since
\* the listing was fetched
C10_Witness ==
  /\ ui.over # <<>>
  /\ ui.stale
  /\ \E i \in 1..Len(ui.tasks) :
       /\ ui.tasks[i].id = ui.over[1].id
       /\ ui.tasks[i].title # ui.over[1].title
       /\ ui.tasks[i].completed # ui.over[1].completed

\* the latest data access call named an id that no stored task had
MissingId(op) == last.op = op /\ last.id \notin Ids(last.before)

\* the latest call was made by the dispatch route of that name
ByRoute(api) == resp.qp.api = <<api>>

\* C11: update_task on an id that matches no stored task (never created, or
\* already deleted) raises, whether or not the remote call succeeds, creates
\* no task and leaves the store as it was, and the update_task dispatch
\* route then answers with one envelope of status "error"; delete_task on
\* such an id, when its remote call succeeds, returns true and leaves the
\* store as it was, and the delete_task dispatch route answers "success".
C11_UpdateMissingRaises ==
  /\ MissingId("update_task") =>
       /\ last.ret = RRaise
       /\ db = last.before
       /\ GetNow(last.id) = {RNone}
       /\ ByRoute("update_task") =>
            /\ Len(resp.envelopes) = 1
            /\ resp.envelopes[1].status = "error"
            /\ resp.stopped
  /\ (MissingId("delete_task") /\ last.ok) =>
       /\ last.ret = RBool(TRUE)
       /\ db = last.before
       /\ ByRoute("delete_task") =>
            /\ Len(resp.envelopes) = 1
            /\ resp.envelopes[1].status = "success"

\* the update_task dispatch route has been asked, with a remote call that
\* succeeded, to update a task that was created and then deleted, while
\* another task is stored
C11_Witness ==
  /\ MissingId("update_task")
  /\ ByRoute("update_task")
  /\ last.ok
  /\ last.id < nextId
  /\ last.before # {}
  /\ last.title # Empty

====
